---------------------------- MODULE Spec2Model ----------------------------
(***************************************************************************)
(* The sliding-window IP rate limiter of blogs/middleware.py               *)
(* (RateLimitMiddleware).  One call of __call__ is broken into the steps   *)
(* at which it touches the shared dictionary ip_request_counts:            *)
(*                                                                         *)
(*   Begin       lines 179-180  client_ip(request), time.time()            *)
(*   PruneRead   lines 184-186  the list comprehension is evaluated        *)
(*   PruneWrite  line  183      its result is stored under the client key  *)
(*   Check       lines 190-192  len(...) >= RATE_LIMIT, _reject            *)
(*   Record      line  195      append(current_time)                       *)
(*   Forward     line  200      get_response(request)                      *)
(*                                                                         *)
(* The lists stored in the dictionary are only ever appended to or         *)
(* replaced by a fresh list, so one step per access of the dictionary      *)
(* entry gives every outcome the interpreter's thread switches can give.   *)
(* Time is in whole seconds.                                               *)
(*                                                                         *)
(* RequestPerformanceMiddleware and LongRequestMiddleware wait in          *)
(* get_response between two readings of the clock, and the former reaches  *)
(* its store in separate accesses (Redis GET and SET; append and del on    *)
(* the in-memory list): their calls are broken into those steps too, so    *)
(* that calls in different slots overlap.  process_view of                *)
(* AllowAnyDomainCsrfMiddleware reads and writes nothing shared and is     *)
(* one step.                                                               *)
(***************************************************************************)
EXTENDS Integers, Sequences, FiniteSets

\* ------------------------------------------------------------ constants

RATE_LIMIT == 10

TIME_WINDOW == 60

\* ---------------------------------------------------------------- bounds

\* Requests served in one behaviour.
MaxCalls == 12

\* Client identities, as returned by client_ip(request).
Clients == {"a", "b"}

\* The readings time.time() can give.
Instants == {0, 1, 60, 61}

\* Request slots: the calls of __call__ that can be in flight together.
Threads == {"t1", "t2"}

\* The slot used when requests are served one after the other.
MainThread == "t1"

\* Requests of a burst that are served before any two overlap.
Warmup == RATE_LIMIT - 1

\* The client a burst comes from.
BurstClients == {"a"}

\* Calls of RequestPerformanceMiddleware in a behaviour with any requests.
MaxPerfCalls == 2

\* Calls of RequestPerformanceMiddleware in a behaviour of one endpoint.
MaxCapCalls == 52

\* Redis round trips that raise RedisError in a behaviour of one endpoint.
MaxRedisErrors == 1

\* Calls of LongRequestMiddleware in a behaviour.
MaxLongCalls == 2

\* The latest clock reading while RequestPerformanceMiddleware is observed.
MaxPerfClock == 2

\* Calls of AllowAnyDomainCsrfMiddleware.process_view in a behaviour.
MaxCsrfCalls == 2

\* Status codes the downstream handler (get_response) answers with.
HandlerStatus == {200, 404}

\* "No value yet" for a clock reading.
NoTime == 0 - 1

\* "No call has returned yet."
NoCall == [client |-> "", now |-> NoTime, response |-> [status |-> 0], invoked |-> FALSE]

VARIABLES
    clock,              \* what time.time() returns now
    ip_request_counts,  \* self.ip_request_counts: client -> list of timestamps
    pc,                 \* per slot: the step its call is at
    client_ip_address,  \* per slot: local of __call__
    current_time,       \* per slot: local of __call__
    pruned,             \* per slot: the value of the list comprehension
    last,               \* the call that returned last: its client, its
                        \* current_time, its response, whether it called get_response
                        \* (serial runs: until the next call begins)
    pre,                \* serial runs: the client's list when the latest call began
    prevCheck,          \* serial runs: current_time of that client's call before it
    lastCheck,          \* serial runs: per client, current_time of its latest call
    firstCheck,         \* serial runs: per client, current_time of its first call
    admitted,           \* per client: how many calls were passed downstream, by timestamp
    rejected,           \* per client: number of calls answered 429
    calls               \* calls begun so far

vars == <<clock, ip_request_counts, pc, client_ip_address, current_time, pruned,
          last, pre, prevCheck, lastCheck, firstCheck, admitted, rejected, calls>>

locals == <<client_ip_address, current_time, pruned>>

\* The deadline the design gives a downstream handler, in seconds.
GuardTimeout == 20

\* What a downstream handler can do with a request: answer after some
\* seconds, or raise.
HandlerRuns ==
    {[raises |-> FALSE, status |-> s, seconds |-> d] :
        s \in HandlerStatus, d \in {GuardTimeout - 1, GuardTimeout + 1}}
    \cup {[raises |-> TRUE, status |-> 0, seconds |-> 1]}

\* "No handler has run yet."
NoRun == [raises |-> FALSE, status |-> 0, seconds |-> 0]

\* What leaves __call__ when the handler raises: no response, the exception.
Unhandled == [status |-> 0, exception |-> TRUE]

VARIABLES
    handled             \* what the handler did in the latest call passed downstream

guardVars == <<handled>>

GuardInit == handled = NoRun

\* ------------------------------------------ RequestPerformanceMiddleware

\* self.max_metrics (line 52)
max_metrics == 50

\* Mutant: OPTIONS requests are measured too.
SkipOnlyHead == {"HEAD"}

\* self.skip_methods (line 51)
skip_methods == {"HEAD", "OPTIONS"}

\* Request methods.
Methods == {"GET", "POST", "HEAD", "OPTIONS"}

\* None, as a resolver match, an endpoint name or a value read from Redis.
NoMatch == [route |-> "", func |-> ""]

NoEndpoint == <<>>

NoValue == [set |-> FALSE, json |-> <<>>]

\* The URL configuration resolve() reads: path -> (route, view function).
\* Two routes are served by the view named feed; "/nope/" has no route.
UrlConf ==
    [p \in {"/", "/feed/", "/atom/"} |->
        CASE p = "/"      -> [route |-> "", func |-> "home"]
          [] p = "/feed/" -> [route |-> "feed/", func |-> "feed"]
          [] p = "/atom/" -> [route |-> "atom/", func |-> "feed"]]

Paths == {"/", "/feed/", "/atom/", "/nope/"}

\* Every endpoint name get_pattern_name can return: f"{method} {route}",
\* kept as the pair of its two parts.
Endpoints == Methods \X {UrlConf[p].route : p \in DOMAIN UrlConf}

\* resolve(path) raises Resolver404.
Resolver404(path) == path \notin DOMAIN UrlConf

\* getattr(request, 'resolver_match', None) or resolve(request.path)
ResolverMatch(request) ==
    IF request.resolver_match # NoMatch THEN request.resolver_match
    ELSE UrlConf[request.path]

\* get_pattern_name (lines 54-65)
get_pattern_name(request) ==
    IF request.method \in skip_methods THEN NoEndpoint
    ELSE IF request.resolver_match = NoMatch /\ Resolver404(request.path)
         THEN NoEndpoint
         ELSE IF ResolverMatch(request).func = "feed"
              THEN <<request.method, "feed/">>
              ELSE <<request.method, ResolverMatch(request).route>>

\* lst[-n:]
LastN(lst, n) == IF Len(lst) <= n THEN lst ELSE SubSeq(lst, Len(lst) - n + 1, Len(lst))

\* json.dumps of a list of samples, and json.loads of what Redis returned.
Dumps(lst) == [set |-> TRUE, json |-> lst]

Loads(value) == value.json

\* Lines 92-101: the list to store back, from the value Redis returned.
RedisRecord(value, metric_data) ==
    LastN(Append(IF value.set THEN Loads(value) ELSE <<>>, metric_data), max_metrics)

\* Mutant: a sample that Redis refused is dropped.
MemoryAppendNothing(metrics, metric_data) == metrics

\* metrics.append(metric_data) (lines 111 and 117)
MemoryAppend(metrics, metric_data) == Append(metrics, metric_data)

\* Lines 112-113 and 118-119.  del metrics[:-max_metrics] leaves a list of
\* at most max_metrics entries as it is, so the test and the del together
\* do what the del alone does at the moment it runs.
MemoryTrim(metrics) ==
    IF Len(metrics) > max_metrics THEN LastN(metrics, max_metrics) ELSE metrics

\* What became of the Redis round trip of a call: not made, both commands
\* done, or redis.RedisError raised by get or by set.
RedisOutcomes == {"unused", "ok", "get_error", "set_error"}

\* Seconds of a request the handler can spend in the database.
DbTimes == {0, 1}

\* "No sample."
NoSample == [total_time |-> 0, db_time |-> 0, compute_time |-> 0, timestamp |-> NoTime]

\* A slot in which no call is running.
PerfIdle ==
    [pc |-> "idle",
     request |-> [method |-> "", path |-> "", resolver_match |-> NoMatch],
     endpoint |-> NoEndpoint, start_time |-> NoTime, handler |-> 0, response |-> 0,
     metric_data |-> NoSample, metrics |-> <<>>, redis |-> "unused", wrote |-> <<>>]

\* "No request has been measured yet."
NoPerfCall ==
    [request |-> PerfIdle.request, endpoint |-> NoEndpoint, handler |-> 0,
     returned |-> 0, redis |-> "unused", metric_data |-> NoSample, wrote |-> <<>>]

VARIABLES
    redis_client,       \* whether a Redis client was made at import (lines 23-25)
    redis_db,           \* what Redis holds: endpoint -> stored value
    request_metrics,    \* the in-memory store (line 28): endpoint -> list of samples
    perf,               \* per slot: the step its call of __call__ is at, its locals
                        \* (request, endpoint, start_time, response, metric_data,
                        \* metrics), the status the handler gave, what became of
                        \* its Redis round trip, the store and key it wrote to
    recorded,           \* per store and endpoint: every sample written to it
    perfLast,           \* the call of RequestPerformanceMiddleware that returned last
    perfErrors,         \* Redis commands that raised so far
    perfCalls           \* calls of RequestPerformanceMiddleware begun so far

perfVars == <<redis_client, redis_db, request_metrics, perf, recorded, perfLast,
              perfErrors, perfCalls>>

PerfInit ==
    /\ redis_client = FALSE
    /\ redis_db = [k \in Endpoints |-> NoValue]
    /\ request_metrics = [k \in Endpoints |-> <<>>]
    /\ perf = [t \in Threads |-> PerfIdle]
    /\ recorded = [st \in {"redis", "memory"} |-> [k \in Endpoints |-> <<>>]]
    /\ perfLast = NoPerfCall
    /\ perfErrors = 0
    /\ perfCalls = 0

\* ------------------------------------------------- LongRequestMiddleware

\* self.threshold, in seconds (line 127)
threshold == 15

\* By how many seconds the clock moves on while handlers run.
Waits == {threshold - 1, threshold, threshold + 1}

\* The latest clock reading while LongRequestMiddleware is observed.
MaxLongClock == 2 * threshold + 1

\* A slot in which no call is running.
LongIdle == [pc |-> "idle", request |-> [method |-> "", path |-> ""],
             start_time |-> NoTime, handler |-> [status |-> 0],
             response |-> [status |-> 0], duration |-> 0]

\* "LongRequestMiddleware has not returned yet."
NoLongCall == [request |-> [method |-> "", path |-> ""], duration |-> 0,
               handler |-> [status |-> 0], returned |-> [status |-> 0]]

VARIABLES
    sentry,             \* the messages given to sentry_sdk.capture_message
    long,               \* per slot: the step its call of __call__ is at, its locals
                        \* (request, start_time, response, duration) and what
                        \* the handler answered
    longLast,           \* the call of LongRequestMiddleware that returned last
    longCalls           \* calls of LongRequestMiddleware begun so far

longVars == <<sentry, long, longLast, longCalls>>

LongInit ==
    /\ sentry = <<>>
    /\ long = [t \in Threads |-> LongIdle]
    /\ longLast = NoLongCall
    /\ longCalls = 0

\* ------------------------------------------ AllowAnyDomainCsrfMiddleware

\* The reasons imported from django.middleware.csrf (lines 4-9).
REASON_NO_CSRF_COOKIE == "CSRF cookie not set."

REASON_CSRF_TOKEN_MISSING == "CSRF token missing."

REASON_BAD_ORIGIN == "Origin checking failed - %s does not match any trusted origins."

\* Mutant: POST counted among the methods that need no token.
SafeMethodsAndPost == {"GET", "HEAD", "OPTIONS", "TRACE", "POST"}

\* The methods of line 154.
SafeMethods == {"GET", "HEAD", "OPTIONS", "TRACE"}

\* Request methods a view can be called with.
CsrfMethods == {"GET", "HEAD", "OPTIONS", "TRACE", "POST", "PUT", "DELETE"}

\* str(e) of the exceptions _check_token can raise, as sequences of words
\* (the final full stop is a word of its own).
Messages ==
    { <<"CSRF", "cookie", "not", "set", ".">>,
      <<"CSRF", "token", "missing", ".">>,
      <<"CSRF", "token", "from", "POST", "incorrect", ".">>,
      <<"CSRF", "cookie", "has", "incorrect", "length", ".">>,
      <<"CSRF", "token", "missing", ".", "CSRF", "cookie", "not", "set", ".">>,
      <<>> }

\* What _check_token(request) can do: return None, or raise.
CheckOutcomes ==
    {[raises |-> FALSE, message |-> <<>>]}
    \cup {[raises |-> TRUE, message |-> m] : m \in Messages}

\* None, as the value of process_view: the view is called.
PassThrough == [rejected |-> FALSE, reason |-> ""]

\* "process_view has not been called yet."
NoCsrfCall == [csrf_exempt |-> FALSE, method |-> "", check |-> [raises |-> FALSE, message |-> <<>>],
               checked |-> FALSE, result |-> PassThrough]

VARIABLES
    csrfLast,           \* the latest call of process_view
    csrfRejected,       \* the reasons of the rejections so far, without repeats
    csrfCalls           \* calls of process_view so far

csrfVars == <<csrfLast, csrfRejected, csrfCalls>>

CsrfInit ==
    /\ csrfLast = NoCsrfCall
    /\ csrfRejected = {}
    /\ csrfCalls = 0

\* The variables of the other middlewares.
others == <<guardVars, perfVars, longVars, csrfVars>>

OthersInit == GuardInit /\ PerfInit /\ LongInit /\ CsrfInit

observed == <<pre, prevCheck, lastCheck, firstCheck>>

\* ------------------------------------------------------- pure functions

\* Mutant: the boundary counted as inside the window.
InWindowInclusive(now, timestamp) == now - timestamp <= TIME_WINDOW

\* Mutant: the operands of the subtraction swapped.
InWindowSwapped(now, timestamp) == timestamp - now < TIME_WINDOW

\* The condition of the list comprehension (line 185).
InWindow(now, timestamp) == now - timestamp < TIME_WINDOW

\* [timestamp for timestamp in lst if current_time - timestamp < TIME_WINDOW]
RECURSIVE Prune(_, _)
Prune(lst, now) ==
    IF lst = <<>> THEN <<>>
    ELSE IF InWindow(now, Head(lst))
         THEN <<Head(lst)>> \o Prune(Tail(lst), now)
         ELSE Prune(Tail(lst), now)

\* Mutant: one request too many let through.
ExceededOffByOne(lst) == Len(lst) > RATE_LIMIT

\* The condition of line 190.
Exceeded(lst) == Len(lst) >= RATE_LIMIT

\* Mutant: the rejection sent with another status.
RejectForbidden(reason) == [status |-> 403, error |-> reason]

\* JsonResponse({'error': reason}, status=429)
_reject(reason) == [status |-> 429, error |-> reason]

\* Mutant: the request is not recorded.
RecordedNothing(lst, now) == lst

\* Mutant: the request is recorded twice.
RecordedTwice(lst, now) == lst \o <<now, now>>

\* The entry line 195 writes: the list with current_time appended.
Recorded(lst, now) == Append(lst, now)

\* ------------------------------------------------------------------ Init

Init ==
    /\ clock = 0
    /\ ip_request_counts = [c \in Clients |-> <<>>]
    /\ pc = [t \in Threads |-> "idle"]
    /\ client_ip_address = [t \in Threads |-> ""]
    /\ current_time = [t \in Threads |-> NoTime]
    /\ pruned = [t \in Threads |-> <<>>]
    /\ last = NoCall
    /\ pre = <<>>
    /\ prevCheck = NoTime
    /\ lastCheck = [c \in Clients |-> NoTime]
    /\ firstCheck = [c \in Clients |-> NoTime]
    /\ admitted = [c \in Clients |-> [i \in Instants |-> 0]]
    /\ rejected = [c \in Clients |-> 0]
    /\ calls = 0
    /\ OthersInit

\* --------------------------------------------------------------- actions

\* time.time() moves on between two readings.
Tick ==
    /\ \E i \in Instants : i > clock /\ clock' = i
    /\ UNCHANGED <<ip_request_counts, pc, locals, last, observed, admitted,
                   rejected, calls>>

\* A request of client c enters __call__ in slot t (lines 179-180).
Begin(t, c) ==
    /\ pc[t] = "idle"
    /\ calls < MaxCalls
    /\ calls' = calls + 1
    /\ pc' = [pc EXCEPT ![t] = "prune_read"]
    /\ client_ip_address' = [client_ip_address EXCEPT ![t] = c]
    /\ current_time' = [current_time EXCEPT ![t] = clock]
    /\ UNCHANGED <<clock, ip_request_counts, pruned, admitted, rejected>>

\* Serial runs note what the call started from; the response of the call
\* before has been delivered.
Observe(c) ==
    /\ last' = NoCall
    /\ pre' = ip_request_counts[c]
    /\ prevCheck' = lastCheck[c]
    /\ lastCheck' = [lastCheck EXCEPT ![c] = clock]
    /\ firstCheck' = IF firstCheck[c] = NoTime
                     THEN [firstCheck EXCEPT ![c] = clock]
                     ELSE firstCheck

\* The comprehension of lines 183-186 is evaluated over the stored list.
PruneRead(t) ==
    /\ pc[t] = "prune_read"
    /\ pruned' = [pruned EXCEPT ![t] =
                    Prune(ip_request_counts[client_ip_address[t]], current_time[t])]
    /\ pc' = [pc EXCEPT ![t] = "prune_write"]
    /\ UNCHANGED <<clock, ip_request_counts, client_ip_address, current_time, last,
                   observed, admitted, rejected, calls>>

\* Mutant: the pruned list is computed and never stored.
PruneWriteDropped(t) ==
    /\ pc[t] = "prune_write"
    /\ pc' = [pc EXCEPT ![t] = "check"]
    /\ UNCHANGED <<clock, ip_request_counts, locals, last, observed, admitted,
                   rejected, calls>>

\* Mutant: one list shared by every client.
PruneWriteShared(t) ==
    /\ pc[t] = "prune_write"
    /\ ip_request_counts' = [c \in Clients |-> pruned[t]]
    /\ pc' = [pc EXCEPT ![t] = "check"]
    /\ UNCHANGED <<clock, locals, last, observed, admitted, rejected, calls>>

\* Its value is stored under the client's key (line 183).
PruneWrite(t) ==
    /\ pc[t] = "prune_write"
    /\ ip_request_counts' =
         [ip_request_counts EXCEPT ![client_ip_address[t]] = pruned[t]]
    /\ pc' = [pc EXCEPT ![t] = "check"]
    /\ UNCHANGED <<clock, locals, last, observed, admitted, rejected, calls>>

\* The call in slot t returns r: its locals are gone.
Return(t, r, calledDownstream) ==
    /\ last' = [client |-> client_ip_address[t], now |-> current_time[t],
                response |-> r, invoked |-> calledDownstream]
    /\ pc' = [pc EXCEPT ![t] = "idle"]
    /\ client_ip_address' = [client_ip_address EXCEPT ![t] = ""]
    /\ current_time' = [current_time EXCEPT ![t] = NoTime]
    /\ pruned' = [pruned EXCEPT ![t] = <<>>]

\* Mutant: the request is recorded before the limit is checked.
CheckRejectRecords(t) ==
    /\ pc[t] = "check"
    /\ Exceeded(ip_request_counts[client_ip_address[t]])
    /\ Return(t, _reject("Rate limit exceeded"), FALSE)
    /\ ip_request_counts' =
         [ip_request_counts EXCEPT ![client_ip_address[t]] =
            Append(@, current_time[t])]
    /\ rejected' = [rejected EXCEPT ![client_ip_address[t]] = @ + 1]
    /\ UNCHANGED <<clock, observed, admitted, calls>>

\* Lines 190-192: over the limit, the call returns _reject(...).
CheckReject(t) ==
    /\ pc[t] = "check"
    /\ Exceeded(ip_request_counts[client_ip_address[t]])
    /\ Return(t, _reject("Rate limit exceeded"), FALSE)
    /\ rejected' = [rejected EXCEPT ![client_ip_address[t]] = @ + 1]
    /\ UNCHANGED <<clock, ip_request_counts, observed, admitted, calls>>

\* Line 190, the condition false: the call goes on to line 195.
CheckPass(t) ==
    /\ pc[t] = "check"
    /\ ~Exceeded(ip_request_counts[client_ip_address[t]])
    /\ pc' = [pc EXCEPT ![t] = "record"]
    /\ UNCHANGED <<clock, ip_request_counts, locals, last, observed, admitted,
                   rejected, calls>>

\* Line 195: current_time is appended to the client's list.
Record(t) ==
    /\ pc[t] = "record"
    /\ ip_request_counts' =
         [ip_request_counts EXCEPT ![client_ip_address[t]] =
            Recorded(@, current_time[t])]
    /\ pc' = [pc EXCEPT ![t] = "forward"]
    /\ UNCHANGED <<clock, locals, last, observed, admitted, rejected, calls>>

\* Line 200: the request is passed downstream and its response returned.
Forward(t) ==
    /\ pc[t] = "forward"
    /\ \E s \in HandlerStatus : Return(t, [status |-> s], TRUE)
    /\ admitted' = [admitted EXCEPT ![client_ip_address[t]][current_time[t]] = @ + 1]
    /\ UNCHANGED <<clock, ip_request_counts, observed, rejected, calls>>

\* One step of the call in slot t.
Step(t) ==
    \/ PruneRead(t)
    \/ PruneWrite(t)
    \/ CheckReject(t)
    \/ CheckPass(t)
    \/ Record(t)
    \/ Forward(t)

\* Requests served one after the other (non-interleaved calls).
Next ==
    \/ Tick /\ UNCHANGED others
    \/ \E c \in Clients : Begin(MainThread, c) /\ Observe(c) /\ UNCHANGED others
    \/ PruneRead(MainThread) /\ UNCHANGED others
    \/ PruneWrite(MainThread) /\ UNCHANGED others
    \/ CheckReject(MainThread) /\ UNCHANGED others
    \/ CheckPass(MainThread) /\ UNCHANGED others
    \/ Record(MainThread) /\ UNCHANGED others
    \/ Forward(MainThread) /\ UNCHANGED others

Spec == Init /\ [][Next]_vars

\* A burst from one client, served by concurrent threads with no lock (the
\* code takes none).  The first Warmup requests arrive one at a time; the
\* later ones overlap in every way.  Every behaviour of ConcSpec is a
\* behaviour of the code; it is used to refute, never to confirm.
ConcBegin(t, c) ==
    /\ calls < Warmup => t = MainThread /\ \A u \in Threads : pc[u] = "idle"
    /\ Begin(t, c)
    /\ UNCHANGED <<observed, last>>

ConcNext ==
    \/ Tick /\ UNCHANGED others
    \/ \E t \in Threads, c \in BurstClients : ConcBegin(t, c) /\ UNCHANGED others
    \/ \E t \in Threads : PruneRead(t) /\ UNCHANGED others
    \/ \E t \in Threads : PruneWrite(t) /\ UNCHANGED others
    \/ \E t \in Threads : CheckReject(t) /\ UNCHANGED others
    \/ \E t \in Threads : CheckPass(t) /\ UNCHANGED others
    \/ \E t \in Threads : Record(t) /\ UNCHANGED others
    \/ \E t \in Threads : Forward(t) /\ UNCHANGED others

ConcSpec == Init /\ [][ConcNext]_vars

\* ------------------------------------------ RequestPerformanceMiddleware

\* The rate limiter's variables but the clock.
rateState == <<ip_request_counts, pc, locals, last, observed, admitted, rejected, calls>>

\* The module is imported with REDISCLOUD_URL set (lines 24-25).
Configure ==
    /\ perfCalls = 0
    /\ ~redis_client
    /\ redis_client' = TRUE
    /\ UNCHANGED <<redis_db, request_metrics, perf, recorded, perfLast, perfErrors,
                   perfCalls>>
    /\ UNCHANGED <<clock, rateState>>

\* A second passes while requests are being served.
PerfTick ==
    /\ clock < MaxPerfClock
    /\ clock' = clock + 1
    /\ UNCHANGED <<rateState, perfVars>>

\* A request enters __call__ in slot t: lines 68-69, and line 72 when the
\* request has an endpoint name.
PerfBegin(t, request) ==
    LET endpoint == get_pattern_name(request)
    IN /\ perf[t].pc = "idle"
       /\ perfCalls' = perfCalls + 1
       /\ perf' = [perf EXCEPT ![t] =
                      [PerfIdle EXCEPT
                          !.pc = IF endpoint = NoEndpoint THEN "skip" ELSE "handle",
                          !.request = request,
                          !.endpoint = endpoint,
                          !.start_time = IF endpoint = NoEndpoint THEN NoTime ELSE clock]]
       /\ UNCHANGED <<redis_client, redis_db, request_metrics, recorded, perfLast,
                      perfErrors>>
       /\ UNCHANGED <<clock, rateState>>

\* Line 70: the handler answers a request that is not measured.
PerfPassThrough(t, handler) ==
    /\ perf[t].pc = "skip"
    /\ perf' = [perf EXCEPT ![t].pc = "return", ![t].handler = handler,
                            ![t].response = handler]
    /\ UNCHANGED <<redis_client, redis_db, request_metrics, recorded, perfLast,
                   perfErrors, perfCalls>>
    /\ UNCHANGED <<clock, rateState>>

\* Lines 74-87: the handler has answered, db_time seconds of its time in the
\* database; the clock is read again and the sample is made.
PerfHandle(t, handler, db_time) ==
    LET total_time == clock - perf[t].start_time
    IN /\ perf[t].pc = "handle"
       /\ db_time <= total_time
       /\ perf' = [perf EXCEPT
                      ![t].pc = IF redis_client THEN "get" ELSE "append",
                      ![t].handler = handler,
                      ![t].response = handler,
                      ![t].metric_data = [total_time |-> total_time,
                                          db_time |-> db_time,
                                          compute_time |-> total_time - db_time,
                                          timestamp |-> perf[t].start_time]]
       /\ UNCHANGED <<redis_client, redis_db, request_metrics, recorded, perfLast,
                      perfErrors, perfCalls>>
       /\ UNCHANGED <<clock, rateState>>

\* Lines 92-101: redis_client.get, and the list to store made from the
\* value; or get raises redis.RedisError (line 108).
PerfRedisGet(t, ok) ==
    /\ perf[t].pc = "get"
    /\ IF ok
       THEN /\ perf' = [perf EXCEPT
                           ![t].pc = "set",
                           ![t].metrics = RedisRecord(redis_db[perf[t].endpoint],
                                                      perf[t].metric_data)]
            /\ UNCHANGED perfErrors
       ELSE /\ perf' = [perf EXCEPT ![t].pc = "append", ![t].redis = "get_error"]
            /\ perfErrors' = perfErrors + 1
    /\ UNCHANGED <<redis_client, redis_db, request_metrics, recorded, perfLast, perfCalls>>
    /\ UNCHANGED <<clock, rateState>>

\* Lines 104-107: redis_client.set of the list made from what get returned;
\* or set raises redis.RedisError (line 108).
PerfRedisSet(t, ok) ==
    /\ perf[t].pc = "set"
    /\ IF ok
       THEN /\ redis_db' = [redis_db EXCEPT ![perf[t].endpoint] = Dumps(perf[t].metrics)]
            /\ recorded' = [recorded EXCEPT !["redis"][perf[t].endpoint] =
                               Append(@, perf[t].metric_data)]
            /\ perf' = [perf EXCEPT
                           ![t].pc = "return",
                           ![t].redis = "ok",
                           ![t].wrote = Append(@, [store |-> "redis",
                                                   key |-> perf[t].endpoint])]
            /\ UNCHANGED perfErrors
       ELSE /\ perf' = [perf EXCEPT ![t].pc = "append", ![t].redis = "set_error"]
            /\ perfErrors' = perfErrors + 1
            /\ UNCHANGED <<redis_db, recorded>>
    /\ UNCHANGED <<redis_client, request_metrics, perfLast, perfCalls>>
    /\ UNCHANGED <<clock, rateState>>

\* Lines 110-111 and 116-117: the sample is appended to the list of the
\* endpoint in request_metrics.
PerfAppend(t) ==
    /\ perf[t].pc = "append"
    /\ request_metrics' = [request_metrics EXCEPT ![perf[t].endpoint] =
                              MemoryAppend(@, perf[t].metric_data)]
    /\ recorded' = [recorded EXCEPT !["memory"][perf[t].endpoint] =
                       Append(@, perf[t].metric_data)]
    /\ perf' = [perf EXCEPT
                   ![t].pc = "trim",
                   ![t].wrote = Append(@, [store |-> "memory", key |-> perf[t].endpoint])]
    /\ UNCHANGED <<redis_client, redis_db, perfLast, perfErrors, perfCalls>>
    /\ UNCHANGED <<clock, rateState>>

\* Lines 112-113 and 118-119: the list is cut to its last max_metrics entries.
PerfTrim(t) ==
    /\ perf[t].pc = "trim"
    /\ request_metrics' = [request_metrics EXCEPT ![perf[t].endpoint] = MemoryTrim(@)]
    /\ perf' = [perf EXCEPT ![t].pc = "return"]
    /\ UNCHANGED <<redis_client, redis_db, recorded, perfLast, perfErrors, perfCalls>>
    /\ UNCHANGED <<clock, rateState>>

\* Lines 70 and 121: the response is returned.
PerfReturn(t) ==
    /\ perf[t].pc = "return"
    /\ perfLast' = [request |-> perf[t].request, endpoint |-> perf[t].endpoint,
                    handler |-> perf[t].handler, returned |-> perf[t].response,
                    redis |-> perf[t].redis, metric_data |-> perf[t].metric_data,
                    wrote |-> perf[t].wrote]
    /\ perf' = [perf EXCEPT ![t] = PerfIdle]
    /\ UNCHANGED <<redis_client, redis_db, request_metrics, recorded, perfErrors,
                   perfCalls>>
    /\ UNCHANGED <<clock, rateState>>

\* Requests a middleware can be given.
\* resolver_match is unset, or what the URL resolver found for the path.
Requests ==
    {r \in [method : Methods, path : Paths,
            resolver_match : {NoMatch} \cup {UrlConf[p] : p \in DOMAIN UrlConf}] :
        \/ r.resolver_match = NoMatch
        \/ r.path \in DOMAIN UrlConf /\ r.resolver_match = UrlConf[r.path]}

\* The requests of overlapping calls: one of each kind get_pattern_name
\* tells apart (a plain route, the two routes of the feed view, a match set
\* by the caller, the two skipped methods, a path with no route).
PerfRequests ==
    {r \in Requests :
        \/ r.method \in {"GET", "POST"} /\ r.path = "/" /\ r.resolver_match = NoMatch
        \/ r.method = "GET" /\ r.path = "/feed/" /\ r.resolver_match = NoMatch
        \/ r.method = "GET" /\ r.path = "/atom/" /\ r.resolver_match # NoMatch
        \/ r.method = "HEAD" /\ r.path = "/" /\ r.resolver_match = NoMatch
        \/ r.method = "OPTIONS" /\ r.path = "/feed/" /\ r.resolver_match = NoMatch
        \/ r.method = "GET" /\ r.path = "/nope/"}

\* A few requests, in slots that overlap.
PerfNext ==
    \/ Configure /\ UNCHANGED <<guardVars, longVars, csrfVars>>
    \/ PerfTick /\ UNCHANGED <<guardVars, longVars, csrfVars>>
    \/ /\ perfCalls < MaxPerfCalls
       /\ \E t \in Threads, request \in PerfRequests : PerfBegin(t, request)
       /\ UNCHANGED <<guardVars, longVars, csrfVars>>
    \/ /\ \E t \in Threads, handler \in HandlerStatus : PerfPassThrough(t, handler)
       /\ UNCHANGED <<guardVars, longVars, csrfVars>>
    \/ /\ \E t \in Threads, handler \in HandlerStatus, db_time \in DbTimes :
             PerfHandle(t, handler, db_time)
       /\ UNCHANGED <<guardVars, longVars, csrfVars>>
    \/ /\ \E t \in Threads, ok \in BOOLEAN : PerfRedisGet(t, ok)
       /\ UNCHANGED <<guardVars, longVars, csrfVars>>
    \/ /\ \E t \in Threads, ok \in BOOLEAN : PerfRedisSet(t, ok)
       /\ UNCHANGED <<guardVars, longVars, csrfVars>>
    \/ /\ \E t \in Threads : PerfAppend(t)
       /\ UNCHANGED <<guardVars, longVars, csrfVars>>
    \/ /\ \E t \in Threads : PerfTrim(t)
       /\ UNCHANGED <<guardVars, longVars, csrfVars>>
    \/ /\ \E t \in Threads : PerfReturn(t)
       /\ UNCHANGED <<guardVars, longVars, csrfVars>>

PerfSpec == Init /\ [][PerfNext]_<<vars, others>>

\* The handler of the one call in flight takes a second.
CapTick ==
    /\ perf[MainThread].pc = "handle"
    /\ clock = perf[MainThread].start_time
    /\ clock' = clock + 1
    /\ UNCHANGED <<rateState, perfVars>>

\* Many requests of one endpoint, served one after the other, one second
\* each, of which Redis refuses at most MaxRedisErrors.
CapNext ==
    \/ Configure /\ UNCHANGED <<guardVars, longVars, csrfVars>>
    \/ CapTick /\ UNCHANGED <<guardVars, longVars, csrfVars>>
    \/ /\ perfCalls < MaxCapCalls
       /\ PerfBegin(MainThread, [method |-> "GET", path |-> "/", resolver_match |-> NoMatch])
       /\ UNCHANGED <<guardVars, longVars, csrfVars>>
    \/ /\ clock > perf[MainThread].start_time
       /\ PerfHandle(MainThread, 200, 0)
       /\ UNCHANGED <<guardVars, longVars, csrfVars>>
    \/ /\ \E ok \in BOOLEAN : (~ok => perfErrors < MaxRedisErrors) /\ PerfRedisGet(MainThread, ok)
       /\ UNCHANGED <<guardVars, longVars, csrfVars>>
    \/ /\ \E ok \in BOOLEAN : (~ok => perfErrors < MaxRedisErrors) /\ PerfRedisSet(MainThread, ok)
       /\ UNCHANGED <<guardVars, longVars, csrfVars>>
    \/ PerfAppend(MainThread) /\ UNCHANGED <<guardVars, longVars, csrfVars>>
    \/ PerfTrim(MainThread) /\ UNCHANGED <<guardVars, longVars, csrfVars>>
    \/ PerfReturn(MainThread) /\ UNCHANGED <<guardVars, longVars, csrfVars>>

CapSpec == Init /\ [][CapNext]_<<vars, others>>

\* Line 200 with what the handler does: the call waits for get_response
\* however long it takes and returns its response; an exception it raises
\* leaves __call__ (there is no try around line 200).
ForwardHandled(t) ==
    /\ pc[t] = "forward"
    /\ \E h \in HandlerRuns :
          /\ handled' = h
          /\ Return(t, IF h.raises THEN Unhandled ELSE [status |-> h.status], TRUE)
    /\ admitted' = [admitted EXCEPT ![client_ip_address[t]][current_time[t]] = @ + 1]
    /\ UNCHANGED <<clock, ip_request_counts, observed, rejected, calls>>

\* Requests of one client served one after the other, with handlers that
\* may be slow or raise.
GuardNext ==
    \/ Tick /\ UNCHANGED others
    \/ \E c \in BurstClients : Begin(MainThread, c) /\ Observe(c) /\ UNCHANGED others
    \/ PruneRead(MainThread) /\ UNCHANGED others
    \/ PruneWrite(MainThread) /\ UNCHANGED others
    \/ CheckReject(MainThread) /\ UNCHANGED others
    \/ CheckPass(MainThread) /\ UNCHANGED others
    \/ Record(MainThread) /\ UNCHANGED others
    \/ ForwardHandled(MainThread) /\ UNCHANGED <<perfVars, longVars, csrfVars>>

GuardSpec == Init /\ [][GuardNext]_<<vars, others>>

\* ------------------------------------------------- LongRequestMiddleware

\* Mutant: a request of exactly the threshold is reported too.
IsLongInclusive(duration) == duration >= threshold

\* The condition of line 134.
IsLong(duration) == duration > threshold

\* Time passes while handlers run.
LongTick ==
    /\ \E seconds \in Waits :
          /\ clock + seconds <= MaxLongClock
          /\ clock' = clock + seconds
    /\ UNCHANGED <<rateState, longVars>>

\* A request enters __call__ in slot t: line 130.
LongBegin(t, request) ==
    /\ long[t].pc = "idle"
    /\ longCalls' = longCalls + 1
    /\ long' = [long EXCEPT ![t] = [LongIdle EXCEPT !.pc = "handle",
                                                    !.request = request,
                                                    !.start_time = clock]]
    /\ UNCHANGED <<sentry, longLast>>
    /\ UNCHANGED <<clock, rateState>>

\* Lines 131-132: the handler has answered with status handler; the clock
\* is read again.
LongMeasure(t, handler) ==
    /\ long[t].pc = "handle"
    /\ long' = [long EXCEPT ![t].pc = "report",
                            ![t].handler = [status |-> handler],
                            ![t].response = [status |-> handler],
                            ![t].duration = clock - long[t].start_time]
    /\ UNCHANGED <<sentry, longLast, longCalls>>
    /\ UNCHANGED <<clock, rateState>>

\* Lines 134-145: a long request is reported; the response is returned.
LongReport(t) ==
    /\ long[t].pc = "report"
    /\ sentry' = IF IsLong(long[t].duration)
                 THEN Append(sentry, [request_duration |-> long[t].duration,
                                      path |-> long[t].request.path,
                                      method |-> long[t].request.method,
                                      level |-> "warning"])
                 ELSE sentry
    /\ longLast' = [request |-> long[t].request, duration |-> long[t].duration,
                    handler |-> long[t].handler, returned |-> long[t].response]
    /\ long' = [long EXCEPT ![t] = LongIdle]
    /\ UNCHANGED longCalls
    /\ UNCHANGED <<clock, rateState>>

\* Requests given to LongRequestMiddleware.
LongRequests == {[method |-> "GET", path |-> "/"], [method |-> "POST", path |-> "/feed/"]}

\* A few requests, in slots that overlap.
LongNext ==
    \/ LongTick /\ UNCHANGED <<guardVars, perfVars, csrfVars>>
    \/ /\ longCalls < MaxLongCalls
       /\ \E t \in Threads, request \in LongRequests : LongBegin(t, request)
       /\ UNCHANGED <<guardVars, perfVars, csrfVars>>
    \/ /\ \E t \in Threads, handler \in HandlerStatus : LongMeasure(t, handler)
       /\ UNCHANGED <<guardVars, perfVars, csrfVars>>
    \/ /\ \E t \in Threads : LongReport(t)
       /\ UNCHANGED <<guardVars, perfVars, csrfVars>>

LongSpec == Init /\ [][LongNext]_<<vars, others>>

\* ------------------------------------------ AllowAnyDomainCsrfMiddleware

\* phrase in message: the words of phrase, in a row, somewhere in message.
Contains(message, phrase) ==
    \E i \in 0..(Len(message) - Len(phrase)) :
        \A j \in 1..Len(phrase) : message[i + j] = phrase[j]

\* Lines 160-165: the reason chosen from str(e).
Reason(message) ==
    IF Contains(message, <<"CSRF", "cookie", "not", "set">>)
    THEN REASON_NO_CSRF_COOKIE
    ELSE IF Contains(message, <<"CSRF", "token", "missing">>)
    THEN REASON_CSRF_TOKEN_MISSING
    ELSE REASON_BAD_ORIGIN

\* process_view (lines 150-167): its value, and whether _check_token ran.
process_view(request, callback, check) ==
    IF callback.csrf_exempt
    THEN [checked |-> FALSE, result |-> PassThrough]
    ELSE IF request.method \notin SafeMethods
    THEN [checked |-> TRUE,
          result |-> IF check.raises
                     THEN [rejected |-> TRUE, reason |-> Reason(check.message)]
                     ELSE PassThrough]
    ELSE [checked |-> FALSE, result |-> PassThrough]

\* One call of process_view.
CsrfCall(request, callback, check) ==
    LET out == process_view(request, callback, check)
    IN /\ csrfCalls' = csrfCalls + 1
       /\ csrfLast' = [csrf_exempt |-> callback.csrf_exempt, method |-> request.method,
                       check |-> check, checked |-> out.checked, result |-> out.result]
       /\ csrfRejected' = IF out.result.rejected
                          THEN csrfRejected \cup {out.result.reason}
                          ELSE csrfRejected
       /\ UNCHANGED <<clock, rateState>>

CsrfNext ==
    /\ csrfCalls < MaxCsrfCalls
    /\ \E method \in CsrfMethods, exempt \in BOOLEAN, check \in CheckOutcomes :
          CsrfCall([method |-> method], [csrf_exempt |-> exempt], check)
    /\ UNCHANGED <<guardVars, perfVars, longVars>>

CsrfSpec == Init /\ [][CsrfNext]_<<vars, others>>

\* ------------------------------------------------------ what is checked

\* The entries of lst still inside the window at time now, stated apart from
\* the code's Prune.
Kept(lst, now) == SelectSeq(lst, LAMBDA ts : now - ts < TIME_WINDOW)

\* The earliest timestamp of a non-empty list.
Oldest(lst) ==
    CHOOSE m \in {lst[i] : i \in 1..Len(lst)} : \A i \in 1..Len(lst) : m <= lst[i]

RECURSIVE SumAdmitted(_, _)
\* Calls of client c passed downstream with a timestamp in S.
SumAdmitted(c, S) ==
    IF S = {} THEN 0
    ELSE LET i == CHOOSE j \in S : TRUE
         IN admitted[c][i] + SumAdmitted(c, S \ {i})

\* Calls of client c that have returned.
Served(c) == SumAdmitted(c, Instants) + rejected[c]

\* The answer of line 192.
RateLimited == [status |-> 429, error |-> "Rate limit exceeded"]

\* In a serial run: a call has returned and no other has begun.
Done == pc[MainThread] = "idle" /\ last # NoCall

\* C1: serving requests one after the other, for every client and every
\* interval [s, s + TIME_WINDOW) the number of requests passed downstream with
\* a timestamp in the interval is at most RATE_LIMIT.  (An interval that holds
\* a timestamp holds no more than the one starting at its earliest.)
C1_RollingWindow ==
    \A c \in Clients : \A s \in Instants :
        SumAdmitted(c, {i \in Instants : s <= i /\ i < s + TIME_WINDOW}) <= RATE_LIMIT

\* C1 happens: a client used up a window, was refused, and was admitted again
\* once the window had passed.
C1_Witness ==
    \E c \in Clients :
        /\ admitted[c][0] = RATE_LIMIT
        /\ rejected[c] >= 1
        /\ admitted[c][TIME_WINDOW] >= 1

\* C2: when a burst of more than RATE_LIMIT requests of one client, all
\* reading the clock inside one window, has been served by concurrent
\* threads, exactly RATE_LIMIT of them were passed downstream and the others
\* were answered 429.
C2_BurstAdmitsExactlyLimit ==
    \A c \in BurstClients :
        ( /\ \A t \in Threads : pc[t] = "idle"
          /\ calls > RATE_LIMIT
          /\ clock < TIME_WINDOW )
        => /\ SumAdmitted(c, Instants) = RATE_LIMIT
           /\ rejected[c] = calls - RATE_LIMIT

\* C3: a call whose pruned list holds RATE_LIMIT entries or more returns
\* status 429 with the payload {error: "Rate limit exceeded"} and does not
\* call get_response.
C3_RejectIs429 ==
    (Done /\ Len(Kept(pre, last.now)) >= RATE_LIMIT)
        => last.response = RateLimited /\ ~last.invoked

\* C3 happens: a call over the limit has returned.
C3_Witness ==
    /\ Done
    /\ Len(Kept(pre, last.now)) >= RATE_LIMIT
    /\ last.response.status = 429

\* C4: after a rejected call the client's list is the list from before the
\* call with the expired entries pruned, with no entry added; after an
\* admitted call it is that list with exactly one entry, now, appended.
C4_RejectedNotRecorded ==
    Done =>
        LET kept == Kept(pre, last.now)
            stored == ip_request_counts[last.client]
        IN IF last.response = RateLimited
           THEN stored = kept
           ELSE stored = Append(kept, last.now)

\* C4 happens: a call was rejected at an instant later than every entry of
\* the list, which is left as it was.
C4_Witness ==
    /\ Done
    /\ last.response = RateLimited
    /\ ip_request_counts[last.client] = pre
    /\ \A i \in 1..Len(pre) : pre[i] < last.now

\* C5: of the requests of a client read within TIME_WINDOW of its first one,
\* the first RATE_LIMIT are passed downstream and answered by the handler,
\* whatever it answers, and every later one is answered 429.
C5_EleventhRejected ==
    (Done /\ last.now - firstCheck[last.client] < TIME_WINDOW) =>
        IF Served(last.client) <= RATE_LIMIT
        THEN last.invoked /\ last.response.status \in HandlerStatus
        ELSE last.response = RateLimited /\ ~last.invoked

\* C5 happens: the eleventh request of a client within the window of its
\* first has returned, after handlers that answered 404.
C5_Witness ==
    /\ Done
    /\ Served(last.client) = RATE_LIMIT + 1
    /\ last.now - firstCheck[last.client] < TIME_WINDOW
    /\ last.now > firstCheck[last.client]
    /\ last.response.status = 429

\* C6: an entry exactly TIME_WINDOW old is pruned, and a client that held
\* RATE_LIMIT entries, the oldest exactly TIME_WINDOW old, is admitted.
C6_BoundaryExpired ==
    Done =>
        /\ \A i \in 1..Len(ip_request_counts[last.client]) :
              last.now - ip_request_counts[last.client][i] # TIME_WINDOW
        /\ (Len(pre) = RATE_LIMIT /\ last.now - Oldest(pre) = TIME_WINDOW)
              => last.invoked

\* C6 happens: a full list whose oldest entry is exactly TIME_WINDOW old, and
\* the call admitted.
C6_Witness ==
    /\ Done
    /\ Len(pre) = RATE_LIMIT
    /\ last.now - Oldest(pre) = TIME_WINDOW
    /\ last.invoked

\* C7: serving requests one after the other, a request read TIME_WINDOW or
\* more after the client's oldest recorded timestamp is admitted, however
\* many of its requests were rejected before.
C7_RecoversAfterWindow ==
    (Done /\ pre # <<>> /\ last.now - Oldest(pre) >= TIME_WINDOW) => last.invoked

\* C7 happens: a client that had been refused with a full list is admitted
\* once its oldest entry is TIME_WINDOW old.
C7_Witness ==
    /\ Done
    /\ Len(pre) = RATE_LIMIT
    /\ rejected[last.client] >= 1
    /\ last.now - Oldest(pre) >= TIME_WINDOW
    /\ last.invoked

\* C8: from the comparison with RATE_LIMIT on, and after the call has
\* returned, every entry of the client's list is less than TIME_WINDOW older
\* than the call's reading of the clock.
C8_StoredWithinWindow ==
    /\ pc[MainThread] \in {"check", "record", "forward"} =>
          \A i \in 1..Len(ip_request_counts[client_ip_address[MainThread]]) :
              current_time[MainThread]
                - ip_request_counts[client_ip_address[MainThread]][i] < TIME_WINDOW
    /\ Done =>
          \A i \in 1..Len(ip_request_counts[last.client]) :
              last.now - ip_request_counts[last.client][i] < TIME_WINDOW

\* C8 happens: a call pruned some entries of a list and kept others.
C8_Witness ==
    /\ Done
    /\ Kept(pre, last.now) # pre
    /\ Kept(pre, last.now) # <<>>

\* C9: when a client's call reads the same instant as its call just before,
\* the second prune removes nothing and the list grows by one entry if the
\* call is admitted and by none if it is rejected.
C9_SameInstantCountedOnce ==
    (Done /\ prevCheck = last.now) =>
        /\ Kept(pre, last.now) = pre
        /\ ip_request_counts[last.client] =
              IF last.invoked THEN Append(pre, last.now) ELSE pre

\* C9 happens: two admitted calls of a client in a row at one instant, with
\* older entries in the list.
C9_Witness ==
    /\ Done
    /\ prevCheck = last.now
    /\ last.invoked
    /\ Len(pre) >= 2
    /\ pre[Len(pre)] = last.now
    /\ pre[1] < last.now

\* C10: a step changes the list of a client only if it is a step of a call
\* of that client; the lists of all other clients are left as they were.
C10_OtherClientsUntouched ==
    [][\A b \in Clients :
          ip_request_counts'[b] # ip_request_counts[b]
              => \E t \in Threads : pc[t] # "idle" /\ client_ip_address[t] = b]_vars

\* C10 happens: a call of one client has returned while another client holds
\* entries that were expired at that call's instant, unpruned.
C10_Witness ==
    /\ Done
    /\ \E b \in Clients \ {last.client} :
          /\ ip_request_counts[b] # <<>>
          /\ Kept(ip_request_counts[b], last.now) # ip_request_counts[b]

\* C16: the list stored for each client is in non-decreasing order in every
\* state, also while calls of that client overlap.
C16_Chronological ==
    \A c \in Clients :
        \A i \in 1..Len(ip_request_counts[c]) - 1 :
            ip_request_counts[c][i] <= ip_request_counts[c][i + 1]

\* C17: while no timestamp can have expired (the clock is still inside the
\* first window), the timestamp of every request passed downstream is in the
\* client's list: the list holds at least as many entries at each instant as
\* requests were passed downstream with that timestamp.
C17_NoAdmittedTimestampLost ==
    clock < TIME_WINDOW =>
        \A c \in Clients : \A i \in Instants :
            Len(SelectSeq(ip_request_counts[c], LAMBDA ts : ts = i)) >= admitted[c][i]

\* C11: a call passed downstream whose handler answers only after the
\* timeout returns the 503 fallback, and one whose handler answers before the
\* timeout returns the handler's response.
C11_SlowHandlerGets503 ==
    (Done /\ last.invoked /\ ~handled.raises) =>
        IF handled.seconds > GuardTimeout
        THEN last.response.status = 503
        ELSE last.response = [status |-> handled.status]

\* C12: every call returns a response, the 429 rejection, the handler's
\* response or the 503 fallback, whatever the handler does; no exception
\* leaves __call__.
C12_NeverRaises ==
    Done =>
        /\ last.response.status \in HandlerStatus \cup {429, 503}
        /\ "exception" \notin DOMAIN last.response

\* The n entries of log written last, in the order they were written.
MostRecent(log, n) ==
    LET m == IF Len(log) <= n THEN Len(log) ELSE n
    IN [i \in 1..m |-> log[Len(log) - m + i]]

\* C13: when a call of RequestPerformanceMiddleware has recorded its sample
\* and is about to return, the list it wrote to, in memory or in Redis, holds
\* at most 50 samples: the 50 written to that store and endpoint last, in the
\* order they were written.
C13_KeepsLast50 ==
    \A t \in Threads :
        (perf[t].pc = "return" /\ perf[t].wrote # <<>>) =>
            LET w == perf[t].wrote[Len(perf[t].wrote)]
                stored == IF w.store = "memory" THEN request_metrics[w.key]
                          ELSE redis_db[w.key].json
            IN /\ Len(stored) <= 50
               /\ stored = MostRecent(recorded[w.store][w.key], 50)

\* C14: when the Redis get or set raises RedisError while a request is
\* measured, the sample is recorded in the in-memory list of the endpoint,
\* there only, and the handler's response is returned as it is.
C14_RedisFailureFallsBack ==
    /\ \A t \in Threads :
          (perf[t].pc = "return" /\ perf[t].redis \in {"get_error", "set_error"}) =>
              /\ perf[t].response = perf[t].handler
              /\ perf[t].wrote = <<[store |-> "memory", key |-> perf[t].endpoint]>>
              /\ \E i \in 1..Len(request_metrics[perf[t].endpoint]) :
                    request_metrics[perf[t].endpoint][i] = perf[t].metric_data
    /\ perfLast.redis \in {"get_error", "set_error"} =>
          /\ perfLast.returned = perfLast.handler
          /\ perfLast.wrote = <<[store |-> "memory", key |-> perfLast.endpoint]>>

\* C14 happens: Redis took one sample of an endpoint and refused the next,
\* while the handler answered 404.
C14_Witness ==
    /\ perfLast.redis = "set_error"
    /\ perfLast.handler = 404
    /\ perfLast.returned = 404
    /\ redis_db[perfLast.endpoint].set
    /\ Len(request_metrics[perfLast.endpoint]) = 1
    /\ request_metrics[perfLast.endpoint][1] = perfLast.metric_data

\* A request that is not measured: HEAD, OPTIONS, or a path with no route.
Unmeasured(r) ==
    \/ r.method \in {"HEAD", "OPTIONS"}
    \/ r.path \notin {"/", "/feed/", "/atom/"}

\* The key '<method> <route>' of a measured request, '<method> feed/' for
\* the two routes of the feed view.
KeyOf(r) ==
    <<r.method, CASE r.path = "/" -> ""
                  [] r.path = "/feed/" -> "feed/"
                  [] r.path = "/atom/" -> "feed/"
                  [] OTHER -> "?">>

\* C19: the stores change under a key only in a step of a call whose request
\* is measured and has that key; a call for a HEAD or OPTIONS request, or for
\* a path with no route, returns having written no sample; any other call
\* returns having written exactly one sample, its own, under the key
\* <method, route> (route "feed/" for every view named feed); in both cases
\* the handler's response is returned.
C19_OneSampleUnlessSkipped ==
    [][/\ \A k \in Endpoints :
             (request_metrics'[k] # request_metrics[k] \/ redis_db'[k] # redis_db[k]) =>
                 \E t \in Threads :
                     /\ perf'[t].pc # perf[t].pc
                     /\ ~Unmeasured(perf[t].request)
                     /\ KeyOf(perf[t].request) = k
       /\ \A t \in Threads :
             (perf[t].pc = "return" /\ perf'[t].pc = "idle") =>
                 /\ perfLast'.returned = perf[t].handler
                 /\ IF Unmeasured(perf[t].request)
                    THEN perf[t].wrote = <<>>
                    ELSE /\ Len(perf[t].wrote) = 1
                         /\ perf[t].wrote[1].key = KeyOf(perf[t].request)
                         /\ \E i \in 1..Len(recorded[perf[t].wrote[1].store][KeyOf(perf[t].request)]) :
                               recorded[perf[t].wrote[1].store][KeyOf(perf[t].request)][i]
                                  = perf[t].metric_data
    ]_<<vars, others>>

\* C19 happens: a HEAD request was passed through after a request of a feed
\* view with another route had been measured under "GET feed/".
C19_Witness ==
    /\ perfLast.request.method = "HEAD"
    /\ perfLast.returned = perfLast.handler
    /\ perfLast.wrote = <<>>
    /\ recorded["memory"][<<"GET", "feed/">>] # <<>>
    /\ recorded["memory"][<<"GET", "atom/">>] = <<>>
    /\ request_metrics[<<"GET", "feed/">>][1].timestamp = 0

\* C15: a call of LongRequestMiddleware gives the alerting sink one message,
\* carrying the duration, path and method of the request, if and only if
\* the duration it measured is strictly more than 15 seconds; nothing else
\* reaches the sink; whether it reports or not, what the call returns is
\* the response of the call downstream.
C15_ReportsIffOverThreshold ==
    [][/\ \A t \in Threads :
             (long[t].pc = "report" /\ long'[t].pc = "idle") =>
                 /\ longLast'.returned = long[t].handler
                 /\ IF long[t].duration > 15
                    THEN sentry' = Append(sentry, [request_duration |-> long[t].duration,
                                                   path |-> long[t].request.path,
                                                   method |-> long[t].request.method,
                                                   level |-> "warning"])
                    ELSE sentry' = sentry
       /\ sentry' # sentry =>
             \E t \in Threads : long[t].pc = "report" /\ long'[t].pc = "idle"
    ]_<<vars, others>>

\* A request of exactly 15 seconds has been served after one of 16 seconds:
\* one message so far, and it is the one of 16 seconds.
C15_Witness ==
    /\ longCalls = 2
    /\ longLast.duration = 15
    /\ longLast.returned.status = 404
    /\ Len(sentry) = 1
    /\ sentry[1].request_duration = 16

\* C18: for a view that is not exempt and a method outside GET, HEAD,
\* OPTIONS and TRACE, a token check that raises gives a rejection, with the
\* cookie reason if the message says the cookie is not set, else the token
\* reason if it says the token is missing, else the bad-origin reason; an
\* exempt view, and a safe method, pass through and the token is not checked.
C18_FailedCheckIsRejected ==
    csrfCalls > 0 =>
        LET unsafe == csrfLast.method \notin {"GET", "HEAD", "OPTIONS", "TRACE"}
            m == csrfLast.check.message
            cookie == m \in { <<"CSRF", "cookie", "not", "set", ".">>,
                              <<"CSRF", "token", "missing", ".", "CSRF", "cookie", "not", "set", ".">> }
            token == m = <<"CSRF", "token", "missing", ".">>
        IN /\ (~csrfLast.csrf_exempt /\ unsafe /\ csrfLast.check.raises) =>
                /\ csrfLast.result.rejected
                /\ csrfLast.result.reason =
                      IF cookie THEN "CSRF cookie not set."
                      ELSE IF token THEN "CSRF token missing."
                      ELSE "Origin checking failed - %s does not match any trusted origins."
           /\ (csrfLast.csrf_exempt \/ ~unsafe) =>
                /\ ~csrfLast.result.rejected
                /\ ~csrfLast.checked

\* A POST whose token was wrong has been rejected as a bad origin after a
\* request without a cookie was rejected for that.
C18_Witness ==
    /\ csrfCalls = 2
    /\ csrfLast.method = "POST"
    /\ ~csrfLast.csrf_exempt
    /\ csrfLast.check = [raises |-> TRUE,
                         message |-> <<"CSRF", "token", "from", "POST", "incorrect", ".">>]
    /\ csrfLast.result.rejected
    /\ csrfRejected = {"CSRF cookie not set.",
                       "Origin checking failed - %s does not match any trusted origins."}

=============================================================================
